---- MODULE Spec2Model ----
(***************************************************************************)
(* Model of the two route handlers of the repository:                      *)
(*   src/app/seed/route.ts   GET: seeds users, customers, invoices and     *)
(*                           revenue inside BEGIN ... COMMIT / ROLLBACK on *)
(*                           one module-level PostgreSQL connection;       *)
(*   src/app/query/route.ts  GET: lists the invoices of amount 666 joined  *)
(*                           with their customers, on a scoped connection. *)
(*                                                                         *)
(* The database is PostgreSQL (both files import @vercel/postgres).  Its   *)
(* behaviour on the statements the code sends is modelled as PostgreSQL    *)
(* documents it: a statement that raises an error inside a transaction     *)
(* block puts the block in the aborted state, every later statement of the *)
(* block is refused until COMMIT or ROLLBACK, and COMMIT of an aborted     *)
(* block completes as a rollback without raising an error.  Statements     *)
(* sent while no block is open are committed on their own.  The client     *)
(* sends the statements of one connection in the order they were issued.   *)
(***************************************************************************)
EXTENDS Integers, Sequences, FiniteSets, TLC

\* ------------------------------------------------------------------ bounds
MaxRuns == 2
NUsers == 2
NCustomers == 2
NInvoices == 2
NRevenue == 2

\* ------------------------------------------------------- program constants
\* WHERE invoices.amount = 666
QueryAmount == 666
\* bcrypt.hash(user.password, 10)
BcryptCost == 10

\* --------------------------------------------------- placeholder dataset
\* '../lib/placeholder-data': four fixed in-memory sequences.
users == [k \in 1..NUsers |-> [id |-> k, password |-> <<"plain", k>>]]
customers == [k \in 1..NCustomers |-> [id |-> k, name |-> <<"customer", k>>]]
invoices ==
  [k \in 1..NInvoices |->
     [customer_id |-> ((k - 1) % NCustomers) + 1,
      amount |-> IF k % 2 = 1 THEN QueryAmount ELSE 500]]
revenue == [k \in 1..NRevenue |-> [month |-> k, revenue |-> 1000 * k]]

\* One-way hash of a plaintext with a cost factor: never the plaintext.
HashPlain(plain, cost) == plain
Hash(plain, cost) == <<"bcrypt", cost, plain>>

\* ---------------------------------------------------------- the database
Tables == {"users", "customers", "invoices", "revenue"}
Objects == Tables \cup {"uuid-ossp"}

\* A database state: the schema objects that exist and the rows of each
\* table.  invoices maps each (customer_id, amount) to the number of rows
\* holding it: their id is generated, so equal values are distinct rows.
\* by records, for each row an INSERT of the seeder stored, the invocation
\* and the placeholder record it came from.
InvoiceVals == [customer_id : 1..NCustomers, amount : {QueryAmount, 500}]
NoInvoices == [v \in InvoiceVals |-> 0]
EmptyDB ==
  [schema |-> {}, users |-> {}, customers |-> {},
   invoices |-> NoInvoices, revenue |-> {}, by |-> {}]

Ids(rows) == {r.id : r \in rows}
Months(rows) == {r.month : r \in rows}

\* CREATE EXTENSION IF NOT EXISTS "uuid-ossp"
CreateExtension(db) == [db EXCEPT !.schema = @ \cup {"uuid-ossp"}]

\* CREATE TABLE IF NOT EXISTS <tbl>: whether the statement is accepted.
\* invoices REFERENCES customers(id) and both users and invoices default
\* their id to uuid_generate_v4().
CanCreate(db, tbl) ==
  \/ tbl \in db.schema
  \/ CASE tbl = "users" -> "uuid-ossp" \in db.schema
       [] tbl = "customers" -> "uuid-ossp" \in db.schema
       [] tbl = "invoices" ->
            "uuid-ossp" \in db.schema /\ "customers" \in db.schema
       [] tbl = "revenue" -> TRUE

CreateTable(db, tbl) == [db EXCEPT !.schema = @ \cup {tbl}]

\* INSERT ... : whether the statement is accepted by the constraints the
\* DDL declares (the table exists; the invoice's customer exists).
CanInsert(db, tbl, k) ==
  /\ tbl \in db.schema
  /\ tbl = "invoices" => invoices[k].customer_id \in Ids(db.customers)

\* INSERT ... ON CONFLICT (...) DO NOTHING, accepted.
InsertUserUpsert(db, k) ==
  [db EXCEPT !.users =
     {u \in @ : u.id # users[k].id}
       \cup {[id |-> users[k].id,
                password |-> <<"bcrypt", BcryptCost, users[k].password>>]}]
InsertUser(db, k) ==
  IF users[k].id \in Ids(db.users) THEN db
  ELSE [db EXCEPT !.users =
          @ \cup {[id |-> users[k].id,
                   password |-> Hash(users[k].password, BcryptCost)]}]

InsertCustomer(db, k) ==
  IF customers[k].id \in Ids(db.customers) THEN db
  ELSE [db EXCEPT !.customers = @ \cup {customers[k]}]

\* The INSERT names no id: the row gets a fresh generated id, so
\* ON CONFLICT (id) never finds a conflicting row.
InsertInvoice(db, k) ==
  [db EXCEPT !.invoices[invoices[k]] = @ + 1]

InsertRevenue(db, k) ==
  IF revenue[k].month \in Months(db.revenue) THEN db
  ELSE [db EXCEPT !.revenue = @ \cup {revenue[k]}]

Insert(db, tbl, k) ==
  CASE tbl = "users" -> InsertUser(db, k)
    [] tbl = "customers" -> InsertCustomer(db, k)
    [] tbl = "invoices" -> InsertInvoice(db, k)
    [] tbl = "revenue" -> InsertRevenue(db, k)

\* ----------------------------------------------------------------- state
VARIABLES
  committed,  \* the durable database state
  working,    \* the state seen on the seeder's connection (its open block)
  txn,        \* the seeder connection's block: "none", "active", "aborted"
  conn,       \* the seeder's module-level connection: "up" or "dead"
  queue,      \* statements issued on the seeder's connection, not yet run
  hashing,    \* users rows whose bcrypt.hash is in flight
  pc,         \* what the seed GET handler awaits
  step,       \* the seeding step the handler is in
  run,        \* number of seed GET invocations started
  resp,       \* status of the response the current invocation returned
  log,        \* statements the current invocation issued, in order
  errs,       \* statements and hashes of the current invocation that failed
  before,     \* the durable state when the current invocation's BEGIN ran
  prevClean,  \* the previous invocation returned 200 with nothing failing
  clients,    \* connections the seed module has acquired and not released
  other,      \* position, step and response of an overlapping invocation
  qpc,        \* what the query GET handler awaits
  held,       \* query connections acquired and not released
  qacquired,  \* the current query invocation acquired its connection
  qreleases,  \* release() calls of the current query invocation
  qresp,      \* status of the query response
  qbody,      \* body of the query response
  qout        \* how the current query invocation went

dbvars == <<committed, working, txn, conn>>
seedvars ==
  <<queue, hashing, pc, step, run, resp, log, errs, before, prevClean,
    clients, other>>
queryvars == <<qpc, held, qacquired, qreleases, qresp, qbody, qout>>
vars == <<dbvars, seedvars, queryvars>>

\* const client = await db.connect(): the one handle of the seed module.
ModuleClient == "client"

\* A statement of invocation r: client.sql`...` on the module's handle.
StmtOnOwnConnection(r, kind, tbl, row) ==
  [run |-> r, kind |-> kind, tbl |-> tbl, row |-> row, on |-> <<"client", r>>]
Stmt(r, kind, tbl, row) ==
  [run |-> r, kind |-> kind, tbl |-> tbl, row |-> row, on |-> ModuleClient]

\* The tag of the statements of an invocation that overlaps another one.
OverlapRun == MaxRuns + 1

\* Database states the seeder can be loaded against: a fresh database, or
\* one whose schema exists and holds rows written earlier.  Every invoice
\* references an existing customer (the foreign key of the schema).
OldUser == [id |-> 1, password |-> Hash(<<"old", 1>>, BcryptCost)]
OldCustomer == [id |-> 1, name |-> <<"old", 1>>]
OldRevenue == [month |-> 1, revenue |-> 7]
InitDBs ==
  {EmptyDB} \cup
  {[schema |-> Objects,
    users |-> IF o THEN {OldUser} ELSE {},
    customers |-> IF o THEN {OldCustomer} ELSE {},
    invoices |-> i,
    revenue |-> IF o THEN {OldRevenue} ELSE {},
    by |-> {}] :
     o \in BOOLEAN,
     i \in {NoInvoices} \cup
            {[NoInvoices EXCEPT ![[customer_id |-> 1, amount |-> a]] = 1] :
               a \in {QueryAmount, 500}}}

FKHolds(db) ==
  \A v \in InvoiceVals : db.invoices[v] > 0 => v.customer_id \in Ids(db.customers)

\* const client = await db.connect();  (module load)
Init ==
  /\ committed \in {db \in InitDBs : FKHolds(db)}
  /\ working = committed
  /\ txn = "none"
  /\ conn = "up"
  /\ queue = <<>>
  /\ hashing = {}
  /\ pc = "idle"
  /\ step = "-"
  /\ run = 0
  /\ resp = 0
  /\ log = <<>>
  /\ errs = {}
  /\ before = committed
  /\ prevClean = FALSE
  /\ clients = {ModuleClient}
  /\ other = [pc |-> "idle", step |-> "-", resp |-> 0, run |-> OverlapRun]
  /\ qpc = "idle"
  /\ held = 0
  /\ qacquired = FALSE
  /\ qreleases = 0
  /\ qresp = 0
  /\ qbody = <<>>
  /\ qout = "none"

\* ------------------------------------------------------- the seed handler
\* GET: the order of the four seeding steps.
StepOrder == <<"users", "customers", "invoices", "revenue">>

Rows(tbl) ==
  CASE tbl = "users" -> NUsers
    [] tbl = "customers" -> NCustomers
    [] tbl = "invoices" -> NInvoices
    [] tbl = "revenue" -> NRevenue

\* The statement GET issues when the step of table tbl has completed.
AfterStepInvoicesFirst(r, tbl) ==
  CASE tbl = "users" -> Stmt(r, "CREATE", "invoices", 0)
    [] tbl = "invoices" -> Stmt(r, "CREATE", "customers", 0)
    [] tbl = "customers" -> Stmt(r, "CREATE", "revenue", 0)
    [] tbl = "revenue" -> Stmt(r, "COMMIT", "-", 0)
AfterStep(r, tbl) ==
  CASE tbl = "users" -> Stmt(r, "CREATE", "customers", 0)
    [] tbl = "customers" -> Stmt(r, "CREATE", "invoices", 0)
    [] tbl = "invoices" -> Stmt(r, "CREATE", "revenue", 0)
    [] tbl = "revenue" -> Stmt(r, "COMMIT", "-", 0)

\* <rows>.map(async (row) => { try { await client.sql`INSERT ...` } ... }):
\* the inserts of a step are issued in array order when the map runs.
\* In seedUsers each row first awaits bcrypt.hash, so nothing is issued yet.
FanOut(r, tbl) ==
  IF tbl = "users" THEN <<>>
  ELSE [k \in 1..Rows(tbl) |-> Stmt(r, "INSERT", tbl, k)]

HashTasks(r, tbl) ==
  IF tbl = "users" THEN {[run |-> r, row |-> k] : k \in 1..NUsers} ELSE {}

\* A per-row operation of step tbl of invocation r has not settled.
Unsettled(r, tbl, q, h) ==
  \/ \E i \in DOMAIN q : q[i].run = r /\ q[i].kind = "INSERT" /\ q[i].tbl = tbl
  \/ tbl = "users" /\ \E t \in h : t.run = r

\* Promise.all of a step: it resolves once every row's promise has resolved.
AllResolved(r, tbl, q, h) == ~Unsettled(r, tbl, q, h)

\* catch (error) { await client.sql`ROLLBACK`; ... }
Catch(r) == <<Stmt(r, "ROLLBACK", "-", 0)>>

\* Whether a failure of statement s reaches GET's catch.  BEGIN, the DDL
\* statements and COMMIT are awaited directly in GET's try; a row's INSERT
\* is awaited inside the row's own try/catch, which logs and swallows.
EscalatesAll(s) == TRUE
Escalates(s) == s.kind \in {"BEGIN", "EXT", "CREATE", "COMMIT"}

\* A row's INSERT has completed or failed.  Either way the row's promise
\* resolves (a failure is caught and logged by the row's try/catch), and
\* the step is left when it was the last row of the step GET awaits.
OnInsert(me, s, ok, q, h) ==
  /\ s.run = me.run /\ me.pc = "rows" /\ me.step = s.tbl
  /\ AllResolved(s.run, s.tbl, q, h)

\* What the handler me (its position, step, response and invocation) does
\* when its statement s, the head of the queue, has
\* completed (ok) or failed (~ok); q and h are the queue and the hashes
\* left.  The result names the handler's next position, the statements it
\* issues, the hashes it starts and the response it returns (0: none).
Continue(me, s, ok, q, h) ==
  LET stay == [pc |-> me.pc, step |-> me.step, issue |-> <<>>, hash |-> {},
               resp |-> me.resp]
  IN
  IF s.kind = "ROLLBACK"
  THEN \* inside catch: a failure here escapes GET itself
       IF ok THEN [stay EXCEPT !.pc = "done", !.resp = 500]
       ELSE [stay EXCEPT !.pc = "threw"]
  ELSE IF ~ok /\ Escalates(s)
  THEN [stay EXCEPT !.pc = "rollback", !.issue = Catch(s.run)]
  ELSE
  CASE s.kind = "BEGIN" ->
         [stay EXCEPT !.pc = "ext", !.issue = <<Stmt(s.run, "EXT", "-", 0)>>]
    [] s.kind = "EXT" ->
         [stay EXCEPT !.pc = "create", !.step = StepOrder[1],
                      !.issue = <<Stmt(s.run, "CREATE", StepOrder[1], 0)>>]
    [] s.kind = "CREATE" ->
         [stay EXCEPT !.pc = "rows", !.issue = FanOut(s.run, s.tbl),
                      !.hash = HashTasks(s.run, s.tbl)]
    [] s.kind = "INSERT" ->
         IF OnInsert(me, s, ok, q, h)
         THEN LET nxt == AfterStep(s.run, s.tbl)
              IN [stay EXCEPT !.pc = IF nxt.kind = "COMMIT" THEN "commit" ELSE "create",
                              !.step = nxt.tbl, !.issue = <<nxt>>]
         ELSE stay
    [] s.kind = "COMMIT" ->
         [stay EXCEPT !.pc = "done", !.resp = 200]

\* The handler of the current invocation.
Me == [pc |-> pc, step |-> step, resp |-> resp, run |-> run]

\* The statements of the current invocation among ss, for the log.
OfRun(ss) == SelectSeq(ss, LAMBDA x : x.run = run)

\* export async function GET(): try { await client.sql`BEGIN`; ...
\* Invocations follow one another: the next request arrives when the one
\* before it has ended and the row operations it started have settled.
StartGET ==
  /\ pc \in {"idle", "done", "threw"}
  /\ queue = <<>> /\ hashing = {}
  /\ run < MaxRuns
  /\ run' = run + 1
  /\ pc' = "begin"
  /\ step' = "-"
  /\ resp' = 0
  /\ queue' = Append(queue, Stmt(run + 1, "BEGIN", "-", 0))
  /\ log' = <<Stmt(run + 1, "BEGIN", "-", 0)>>
  /\ errs' = {}
  /\ prevClean' = (pc = "done" /\ resp = 200 /\ errs = {})
  /\ UNCHANGED <<hashing, before, clients, other, dbvars, queryvars>>

\* The server accepts statement s in the connection's present state.
Accepted(s) ==
  CASE s.kind = "BEGIN" -> txn # "aborted"
    [] s.kind = "COMMIT" -> TRUE
    [] s.kind = "ROLLBACK" -> TRUE
    [] s.kind = "EXT" -> txn # "aborted"
    [] s.kind = "CREATE" -> txn # "aborted" /\ CanCreate(working, s.tbl)
    [] s.kind = "INSERT" -> txn # "aborted" /\ CanInsert(working, s.tbl, s.row)

\* The data the connection sees once the accepted statement s has run.
Apply(db, s) ==
  CASE s.kind = "EXT" -> CreateExtension(db)
    [] s.kind = "CREATE" -> CreateTable(db, s.tbl)
    [] s.kind = "INSERT" ->
         LET db1 == Insert(db, s.tbl, s.row)
         IN IF db1 = db THEN db
            ELSE [db1 EXCEPT !.by = @ \cup {[run |-> s.run, tbl |-> s.tbl, row |-> s.row]}]
    [] OTHER -> db

\* The handler's part of a step in which the head of the queue completes.
Resume(s, ok) ==
  LET q == Tail(queue)
      mine == s.run # OverlapRun
      c == Continue(IF mine THEN Me ELSE other, s, ok, q, hashing)
  IN /\ pc' = IF mine THEN c.pc ELSE pc
     /\ step' = IF mine THEN c.step ELSE step
     /\ resp' = IF mine THEN c.resp ELSE resp
     /\ other' = IF mine THEN other
                 ELSE [other EXCEPT !.pc = c.pc, !.step = c.step, !.resp = c.resp]
     /\ queue' = q \o c.issue
     /\ hashing' = hashing \cup c.hash
     /\ log' = log \o OfRun(c.issue)
     /\ errs' = IF ok \/ s.run # run THEN errs ELSE errs \cup {s}
     /\ before' = IF s.kind = "BEGIN" THEN committed ELSE before
     /\ UNCHANGED <<run, prevClean, clients, queryvars>>

\* The head of the queue runs on the server and succeeds.
ExecOk ==
  /\ queue # <<>>
  /\ conn = "up"
  /\ LET s == Head(queue) IN
       /\ Accepted(s)
       /\ CASE s.kind = "BEGIN" ->
                 /\ txn' = "active"
                 /\ UNCHANGED <<committed, working>>
            [] s.kind = "COMMIT" ->
                 /\ txn' = "none"
                 /\ committed' = IF txn = "active" THEN working ELSE committed
                 /\ working' = committed'
            [] s.kind = "ROLLBACK" ->
                 /\ txn' = "none"
                 /\ working' = committed
                 /\ UNCHANGED committed
            [] OTHER ->
                 /\ working' = Apply(working, s)
                 /\ committed' = IF txn = "none" THEN working' ELSE committed
                 /\ UNCHANGED txn
       /\ UNCHANGED conn
       /\ Resume(s, TRUE)

\* The head of the queue fails: the connection is dead, the server refuses
\* the statement, or the statement raises an error of its own.  An error
\* inside a transaction block aborts the block.
ExecError ==
  /\ queue # <<>>
  /\ LET s == Head(queue) IN
       /\ \/ conn = "dead"
          \/ ~Accepted(s)
          \/ s.kind \in {"EXT", "CREATE", "INSERT"}
       /\ txn' = IF conn = "up" /\ txn = "active" THEN "aborted" ELSE txn
       /\ UNCHANGED <<committed, working, conn>>
       /\ Resume(s, FALSE)

\* The connection is lost while the head of the queue runs: the statement
\* fails and the server discards the open block.  A COMMIT in flight may
\* or may not have taken effect.
ExecLost ==
  /\ queue # <<>>
  /\ conn = "up"
  /\ LET s == Head(queue) IN
       /\ conn' = "dead"
       /\ txn' = "none"
       /\ \E applied \in BOOLEAN :
            committed' = IF applied /\ s.kind = "COMMIT" /\ txn = "active"
                         THEN working ELSE committed
       /\ working' = committed'
       /\ Resume(s, FALSE)

\* const hashedPassword = await bcrypt.hash(user.password, 10) resolves:
\* the row issues its INSERT.
HashOk ==
  \E t \in hashing :
    LET s == Stmt(t.run, "INSERT", "users", t.row) IN
    /\ hashing' = hashing \ {t}
    /\ queue' = Append(queue, s)
    /\ log' = log \o OfRun(<<s>>)
    /\ UNCHANGED <<pc, step, run, resp, errs, before, prevClean, clients, other,
                   dbvars, queryvars>>

\* bcrypt.hash rejects, outside the row's try: the row's promise rejects,
\* and so does Promise.all unless it already has; GET's catch runs.
HashFail ==
  \E t \in hashing :
    LET escapes == t.run = run /\ pc = "rows" /\ step = "users"
        issue == IF escapes THEN Catch(t.run) ELSE <<>>
    IN
    /\ hashing' = hashing \ {t}
    /\ pc' = IF escapes THEN "rollback" ELSE pc
    /\ queue' = queue \o issue
    /\ log' = log \o OfRun(issue)
    /\ errs' = IF t.run = run
               THEN errs \cup {Stmt(t.run, "HASH", "users", t.row)} ELSE errs
    /\ UNCHANGED <<step, run, resp, before, prevClean, clients, other,
                   dbvars, queryvars>>

\* ------------------------------------------------------ the query handler
\* FROM invoices JOIN customers ON invoices.customer_id = customers.id
JoinRows(db) ==
  {p \in InvoiceVals \X db.customers :
     db.invoices[p[1]] > 0 /\ p[1].customer_id = p[2].id}

\* WHERE invoices.amount = 666
SelectedAll(db) == JoinRows(db)
Selected(db) == {p \in JoinRows(db) : p[1].amount = QueryAmount}

\* SELECT invoices.amount, customers.name
Project(p) == [amount |-> p[1].amount, name |-> p[2].name]

RECURSIVE SumCounts(_, _)
SumCounts(db, ps) ==
  IF ps = {} THEN 0
  ELSE LET p == CHOOSE x \in ps : TRUE
       IN db.invoices[p[1]] + SumCounts(db, ps \ {p})

\* result.rows: each record with the number of times it is returned (SQL
\* fixes no order without ORDER BY).
Query(db) ==
  [rec \in {Project(p) : p \in Selected(db)} |->
     SumCounts(db, {p \in Selected(db) : Project(p) = rec})]

\* The query names two tables: it is refused unless both exist.
CanQuery(db) == "invoices" \in db.schema /\ "customers" \in db.schema

\* finally { client.release(); }
ReleaseForgotten(h) == h
Release(h) == h - 1

\* new Response(JSON.stringify(invoices), { status: 200, ... })
OkBody(rows) == <<"json", rows>>
\* new Response(JSON.stringify({ error: 'Failed to fetch invoices' }), ...)
ErrorBodyLeaking == <<"json", [error |-> "connection refused"]>>
ErrorBody == <<"json", [error |-> "Failed to fetch invoices"]>>

\* GET -> listInvoices -> db.connect() is awaited.
QStart ==
  /\ qpc \in {"idle", "done"}
  /\ qpc' = "connect"
  /\ qacquired' = FALSE
  /\ qreleases' = 0
  /\ qresp' = 0
  /\ qbody' = <<>>
  /\ qout' = "none"
  /\ UNCHANGED <<held, dbvars, seedvars>>

\* db.connect() resolves: the query is sent.
QConnectOk ==
  /\ qpc = "connect"
  /\ qpc' = "query"
  /\ held' = held + 1
  /\ qacquired' = TRUE
  /\ UNCHANGED <<qreleases, qresp, qbody, qout, dbvars, seedvars>>

\* db.connect() rejects before the try: listInvoices rejects, GET's catch
\* answers.
QConnectFail ==
  /\ qpc = "connect"
  /\ qpc' = "done"
  /\ qresp' = 500
  /\ qbody' = ErrorBody
  /\ qout' = "connect failed"
  /\ UNCHANGED <<held, qacquired, qreleases, dbvars, seedvars>>

\* The query completes: return result.rows; finally releases; GET answers.
QQueryOk ==
  /\ qpc = "query"
  /\ CanQuery(committed)
  /\ held' = Release(held)
  /\ qreleases' = qreleases + 1
  /\ qpc' = "done"
  /\ qresp' = 200
  /\ qbody' = OkBody(Query(committed))
  /\ qout' = "query ok"
  /\ UNCHANGED <<qacquired, dbvars, seedvars>>

\* The query fails: catch logs and rethrows; finally releases; GET's catch
\* answers.
QQueryFail ==
  /\ qpc = "query"
  /\ held' = Release(held)
  /\ qreleases' = qreleases + 1
  /\ qpc' = "done"
  /\ qresp' = 500
  /\ qbody' = ErrorBody
  /\ qout' = "query failed"
  /\ UNCHANGED <<qacquired, dbvars, seedvars>>

Next ==
  \/ StartGET \/ ExecOk \/ ExecError \/ ExecLost \/ HashOk \/ HashFail
  \/ QStart \/ QConnectOk \/ QConnectFail \/ QQueryOk \/ QQueryFail

Spec == Init /\ [][Next]_vars

\* A second request for the seed route arrives while an invocation is in
\* progress: its GET runs on the same module-level client.
StartOverlap ==
  /\ other.pc = "idle"
  /\ pc \notin {"idle", "done", "threw"}
  /\ other' = [other EXCEPT !.pc = "begin"]
  /\ queue' = Append(queue, Stmt(OverlapRun, "BEGIN", "-", 0))
  /\ UNCHANGED <<hashing, pc, step, run, resp, log, errs, before, prevClean,
                 clients, dbvars, queryvars>>

\* Overlapping seed invocations.  Hashes succeed and the connection stays
\* up here: what a rejected hash and a lost connection do to one
\* invocation is told by Spec.
NextOverlap == StartGET \/ StartOverlap \/ ExecOk \/ ExecError \/ HashOk

SpecOverlap == Init /\ [][NextOverlap]_vars

\* ---------------------------------------------------------------- claims
Issued(kind) == \E i \in DOMAIN log : log[i].kind = kind
Failed(kind) == \E e \in errs : e.kind = kind
Ended == pc \in {"done", "threw"}
Quiet == queue = <<>> /\ hashing = {}

\* The row of the k-th placeholder record of tbl is in db (for invoices,
\* whose rows get fresh ids: one more row of its values than in db0).
RowPresent(db, db0, tbl, k) ==
  CASE tbl = "users" -> users[k].id \in Ids(db.users)
    [] tbl = "customers" -> customers[k].id \in Ids(db.customers)
    [] tbl = "invoices" -> db.invoices[invoices[k]] > db0.invoices[invoices[k]]
    [] tbl = "revenue" -> revenue[k].month \in Months(db.revenue)

\* C1: when two seed invocations follow one another and no statement of
\* either fails, the second leaves every table with the rows it had when
\* the second began: it adds no row.
SeedIdempotent ==
  (run >= 2 /\ pc = "done" /\ resp = 200 /\ errs = {} /\ prevClean)
    => committed = before

\* C2: once an invocation in which a DDL statement failed or an exception
\* escaped a seeding step has returned its error response, the tables
\* hold what they held before the invocation's BEGIN.
SeedAtomicOnFailure ==
  (pc = "done" /\ resp = 500
     /\ (Failed("EXT") \/ Failed("CREATE") \/ Failed("HASH")))
    => committed = before

\* C3: when only row INSERTs fail (BEGIN, the DDL statements and COMMIT
\* succeed), the invocation issues COMMIT and no ROLLBACK, and after the
\* commit every row whose insert did not fail is present.
RowFaultIsolation ==
  (pc = "done" /\ resp = 200 /\ Quiet /\ \A e \in errs : e.kind = "INSERT")
    => /\ Issued("COMMIT") /\ ~Issued("ROLLBACK")
       /\ \A tbl \in Tables : \A k \in 1..Rows(tbl) :
            Stmt(run, "INSERT", tbl, k) \notin errs
              => RowPresent(committed, before, tbl, k)

\* C4: an ended invocation issued COMMIT exactly when BEGIN, the extension
\* step and the four seeding steps completed without an unhandled error;
\* otherwise it issued ROLLBACK; it never ends having issued neither.
CommitDecision ==
  Ended =>
    LET unhandled ==
          Failed("BEGIN") \/ Failed("EXT") \/ Failed("CREATE") \/ Failed("HASH")
    IN /\ Issued("COMMIT") <=> ~unhandled
       /\ ~Issued("COMMIT") => Issued("ROLLBACK")
       /\ Issued("COMMIT") \/ Issued("ROLLBACK")

\* An invocation that committed although a row INSERT failed.
CommitDecisionWitness ==
  /\ pc = "done" /\ resp = 200 /\ Failed("INSERT")
  /\ Issued("COMMIT") /\ ~Issued("ROLLBACK")

\* C5: every ended invocation has returned a response: 200 exactly when
\* its COMMIT completed, 500 on the failure path, after ROLLBACK was issued.
SeedAlwaysResponds ==
  Ended =>
    /\ resp \in {200, 500}
    /\ resp = 200 <=> (Issued("COMMIT") /\ ~Failed("COMMIT"))
    /\ resp = 500 => Issued("ROLLBACK")

\* Position of a statement in the order GET prescribes.
Rank(s) ==
  CASE s.kind = "BEGIN" -> 0
    [] s.kind = "EXT" -> 1
    [] s.kind = "COMMIT" -> 10
    [] s.kind = "CREATE" /\ s.tbl = "users" -> 2
    [] s.kind = "INSERT" /\ s.tbl = "users" -> 3
    [] s.kind = "CREATE" /\ s.tbl = "customers" -> 4
    [] s.kind = "INSERT" /\ s.tbl = "customers" -> 5
    [] s.kind = "CREATE" /\ s.tbl = "invoices" -> 6
    [] s.kind = "INSERT" /\ s.tbl = "invoices" -> 7
    [] s.kind = "CREATE" /\ s.tbl = "revenue" -> 8
    [] s.kind = "INSERT" /\ s.tbl = "revenue" -> 9

\* A statement of step tbl of the current invocation is still to run.
InFlight(tbl) ==
  \/ \E i \in DOMAIN queue : queue[i].run = run /\ queue[i].tbl = tbl
  \/ tbl = "users" /\ \E t \in hashing : t.run = run

\* C6: the statements of an invocation are issued in the order BEGIN,
\* create-extension, users, customers, invoices, revenue, COMMIT; no
\* invoices statement is issued while a customers statement has not
\* settled, and COMMIT is not issued while a revenue INSERT has not settled.
StepOrdering ==
  /\ \A i, j \in DOMAIN log :
       (i < j /\ log[i].kind # "ROLLBACK" /\ log[j].kind # "ROLLBACK")
         => /\ Rank(log[i]) <= Rank(log[j])
            /\ log[j].kind # "INSERT" => Rank(log[i]) < Rank(log[j])
  /\ InFlight("customers") => \A i \in DOMAIN log : log[i].tbl # "invoices"
  /\ InFlight("revenue") => ~Issued("COMMIT")

\* A committed invocation: all eleven kinds of statement were issued.
StepOrderingWitness ==
  /\ pc = "done" /\ resp = 200
  /\ Len(log) = 3 + 4 + NUsers + NCustomers + NInvoices + NRevenue

\* The handler has left the step of table tbl: after the step's CREATE
\* TABLE it issued a statement that is not one of the step's INSERTs.
LeftStep(tbl) ==
  \E i, j \in DOMAIN log :
    /\ i < j
    /\ log[i].kind = "CREATE" /\ log[i].tbl = tbl
    /\ ~(log[j].kind = "INSERT" /\ log[j].tbl = tbl)

\* C7: control does not leave a seeding step (to the next step, to COMMIT
\* or to ROLLBACK) while a per-row operation of the step has not settled.
StepBarrier ==
  \A tbl \in Tables : LeftStep(tbl) => ~Unsettled(run, tbl, queue, hashing)

\* C8: a query invocation that acquired its connection has released it
\* exactly once when it returns, one whose acquisition failed never calls
\* release, and no connection is held between invocations.
QueryConnectionReleased ==
  /\ qreleases <= 1
  /\ qpc = "done" => (qreleases = IF qacquired THEN 1 ELSE 0)
  /\ qpc \in {"idle", "done"} => held = 0
  /\ qpc = "connect" => ~qacquired /\ qreleases = 0 /\ held = 0
  /\ qpc = "query" => qacquired /\ qreleases = 0 /\ held = 1

\* A query invocation that acquired its connection, failed and returned.
QueryConnectionReleasedWitness ==
  qpc = "done" /\ qout = "query failed" /\ qacquired /\ qreleases = 1

\* C9: a query invocation always returns a response; when acquisition or
\* the query failed it is 500 with the fixed body; 200 is returned only
\* when the query completed.
QueryErrorResponse ==
  qpc = "done" =>
    /\ qresp \in {200, 500}
    /\ qout \in {"connect failed", "query failed"} =>
         /\ qresp = 500
         /\ qbody = <<"json", [error |-> "Failed to fetch invoices"]>>
    /\ qresp = 200 => qout = "query ok"

\* An invocation whose connection could not be acquired has been answered.
QueryErrorResponseWitness ==
  qpc = "done" /\ qresp = 500 /\ qout = "connect failed" /\ ~qacquired

RECURSIVE SumOver(_, _)
SumOver(f, S) ==
  IF S = {} THEN 0
  ELSE LET x == CHOOSE y \in S : TRUE IN f[x] + SumOver(f, S \ {x})

\* The rows a query must return against db: one {amount, name} record per
\* invoices row of amount 666, named after the customer it references.
RowsCorrect(rows, db) ==
  LET wanted == {v \in InvoiceVals : v.amount = 666 /\ db.invoices[v] > 0}
      NameOf(v) == (CHOOSE c \in db.customers : c.id = v.customer_id).name
  IN /\ \A rec \in DOMAIN rows : rec.amount = 666 /\ rows[rec] >= 1
     /\ SumOver(rows, DOMAIN rows) = SumOver(db.invoices, wanted)
     /\ \A v \in wanted :
          /\ \E c \in db.customers : c.id = v.customer_id
          /\ [amount |-> 666, name |-> NameOf(v)] \in DOMAIN rows
          /\ rows[[amount |-> 666, name |-> NameOf(v)]] >= db.invoices[v]

\* C10: a query that succeeds answers 200 with exactly one record per
\* invoice of amount 666 in the database it ran against, carrying the
\* name of the invoice's customer, and nothing for any other invoice.
QueryCorrect ==
  [][(qpc = "query" /\ qresp' = 200)
       => /\ qbody'[1] = "json"
          /\ RowsCorrect(qbody'[2], committed)]_vars

\* A 200 answer that returns a record twice (two invoices of amount 666 of
\* one customer) while the database holds an invoice of another amount.
QueryCorrectWitness ==
  /\ qpc = "done" /\ qresp = 200
  /\ \E rec \in DOMAIN qbody[2] : qbody[2][rec] >= 2
  /\ \E v \in InvoiceVals : v.amount # 666 /\ committed.invoices[v] > 0

\* Every row of db0 is a row of db1, with the same field values.
Preserved(db0, db1) ==
  /\ db0.users \subseteq db1.users
  /\ db0.customers \subseteq db1.customers
  /\ db0.revenue \subseteq db1.revenue
  /\ \A v \in InvoiceVals : db0.invoices[v] <= db1.invoices[v]

\* C11: no step of the seeder or of the query handler removes or changes
\* a stored row: every row of the database is still there, with the same
\* field values, after the step, whether the invocation commits or rolls
\* back and also when a placeholder record has the key of a stored row.
NeverOverwrites == [][Preserved(committed, committed')]_vars

\* A committed invocation whose placeholder user 1 and customer 1 met the
\* stored rows of the same ids and other field values, and left them.
NeverOverwritesWitness ==
  /\ pc = "done" /\ resp = 200 /\ errs = {}
  /\ OldUser \in committed.users /\ OldCustomer \in committed.customers
  /\ OldUser.id = users[1].id /\ OldCustomer.id = customers[1].id
  /\ customers[2] \in committed.customers

\* Users rows of db that were written from the placeholder dataset.
Seeded(db) == {u \in db.users : u # OldUser}

\* C12: no users row holds a placeholder plaintext password; every users
\* row the seeder wrote holds the cost-10 hash of its placeholder password;
\* a user's INSERT is in flight only when its hash is no longer pending.
PasswordHashed ==
  /\ \A db \in {committed, working} :
       /\ \A u \in db.users : \A k \in 1..NUsers : u.password # users[k].password
       /\ \A u \in Seeded(db) :
            \E k \in 1..NUsers :
              /\ u.id = users[k].id
              /\ u.password = <<"bcrypt", 10, users[k].password>>
  /\ \A i \in DOMAIN queue :
       (queue[i].kind = "INSERT" /\ queue[i].tbl = "users")
         => [run |-> queue[i].run, row |-> queue[i].row] \notin hashing

\* A committed users row written by the seeder.
PasswordHashedWitness ==
  pc = "done" /\ resp = 200 /\ \E u \in Seeded(committed) : u.id = users[2].id

\* C13: ROLLBACK is issued only after a failure of BEGIN, of a DDL
\* statement, of COMMIT or of a hash; and when a hash has failed no
\* statement of the customers, invoices or revenue step is ever issued,
\* ROLLBACK is issued, COMMIT is not, and the invocation answers 500.
EscalationOnlyFrom ==
  Issued("ROLLBACK") =>
    \/ Failed("BEGIN") \/ Failed("EXT") \/ Failed("CREATE")
    \/ Failed("COMMIT") \/ Failed("HASH")
HashFailureStops ==
  Failed("HASH") =>
    /\ \A i \in DOMAIN log : log[i].tbl \notin {"customers", "invoices", "revenue"}
    /\ Issued("ROLLBACK") /\ ~Issued("COMMIT")
EscalationBoundary ==
  /\ EscalationOnlyFrom
  /\ HashFailureStops
  /\ (Failed("HASH") /\ Ended) => resp = 500

\* No row stored by an INSERT of invocation r is in the durable state.
NotDurable(r) == \A x \in committed.by : x.run # r

\* C14: when two seed invocations overlap on the module-level connection,
\* an invocation that has ended with ROLLBACK and status 500 leaves none of
\* the rows it inserted in the durable state (the COMMIT of the other
\* invocation does not make them durable).
OverlapAtomic ==
  other.pc # "idle" =>
    /\ (pc = "done" /\ resp = 500) => NotDurable(run)
    /\ (other.pc = "done" /\ other.resp = 500) => NotDurable(OverlapRun)

\* C15: the seed module holds exactly one connection, the one acquired at
\* module load, in every state, and every statement of every invocation
\* (BEGIN, DDL, inserts, COMMIT, ROLLBACK) is issued on it.
OneSeederConnection ==
  /\ clients = {"client"}
  /\ Cardinality(clients) = 1
  /\ \A i \in DOMAIN queue : queue[i].on \in clients
  /\ \A i \in DOMAIN log : log[i].on \in clients

\* A second invocation has ended on the failure path, after ROLLBACK.
OneSeederConnectionWitness ==
  run >= 2 /\ pc = "done" /\ resp = 500 /\ Issued("ROLLBACK") /\ prevClean

====
